---------------------------- MODULE Spec2Model ----------------------------
(***************************************************************************)
(* AutoPost (src/app.py): layout validation, format resolution, the        *)
(* Streamlit run of main(), the field formatters, text fitting and the     *)
(* photo fitter, as state machines.                                        *)
(*                                                                         *)
(* One module holds several specifications over the same variables; each   *)
(* specification drives one group of variables and leaves the others at    *)
(* their idle values:                                                      *)
(*   SpecValidate  validate_layout_config on parsed JSON values            *)
(*   SpecConfig    get_format_config and mutation of what it returns       *)
(*   Spec          main(): one action per Streamlit rerun                  *)
(*   SpecFormat    the field formatters and their on-change callbacks      *)
(*   SpecText      render_text / draw_text_field / fit_text_to_width       *)
(*   SpecFit       process_photo                                           *)
(***************************************************************************)
EXTENDS Integers, Sequences, FiniteSets, TLC

VARIABLES
    vconfig,            \* SpecValidate: the parsed layout.json under validation
    vresult,            \* SpecValidate: "none" before the call, then "True" / "False"
    heap,               \* SpecConfig: the Python objects json.load, deepcopy and {} built
    root,               \* SpecConfig: the reference json.load returned (the stored configuration)
    handles,            \* SpecConfig: what get_format_config returned, in call order
    loaded,             \* SpecConfig: the configuration's value at load time (history)
    fs,                 \* Spec: the template folders on disk
    selected_template,  \* Spec: brand selectbox
    selected_format,    \* Spec: format selectbox
    uploaded_files,     \* Spec: file_uploader contents
    model_input,        \* Spec: the "Modelo do veiculo" text input
    generate_btn,       \* Spec: whether the last rerun was triggered by the generate button
    events,             \* Spec: what the last rerun of main() did, in order
    session,            \* Spec: st.session_state download cache
    typed,              \* SpecFormat: the text the user types into a field
    state,              \* SpecFormat: st.session_state of the three formatted fields
    last,               \* SpecFormat: the callback that ran last and how it ended
    tin,                \* SpecText: render_text's arguments
    drawn,              \* SpecText: the draw calls render_text made, in order
    fitin,              \* SpecFit: process_photo's arguments
    fitted,             \* SpecFit: process_photo's result
    images,             \* SpecPipeline: the PIL Image objects of a run, by identity
    pipe                \* SpecPipeline: main's locals (template_image, format_config), the
                        \* last stage called, and the values at load time (history)

validateVars == <<vconfig, vresult>>
configVars   == <<heap, root, handles, loaded>>
mainVars     == <<fs, selected_template, selected_format, uploaded_files,
                  model_input, generate_btn, events, session>>
formatVars   == <<typed, state, last>>
textVars     == <<tin, drawn>>
fitVars      == <<fitin, fitted>>
pipeVars     == <<images, pipe>>
vars == <<validateVars, configVars, mainVars, formatVars, textVars, fitVars, pipeVars>>

(***************************************************************************)
(* Parsed JSON values (json.load): a value is a record [t, v] with t its   *)
(* Python type.  A dict is a sequence of <<key, value>> pairs in insertion *)
(* order with distinct keys; a list is a sequence of values.               *)
(***************************************************************************)
JInt(n)   == [t |-> "int",   v |-> n]
JFloat(n) == [t |-> "float", v |-> n]
JStr(s)   == [t |-> "str",   v |-> s]
JBool(b)  == [t |-> "bool",  v |-> b]
JList(l)  == [t |-> "list",  v |-> l]
JDict(d)  == [t |-> "dict",  v |-> d]
None      == [t |-> "null",  v |-> 0]
\* Marks a key left out when a dict literal is built; never a value of a dict.
Absent    == [t |-> "absent", v |-> 0]

MkDict(pairs) == JDict(SelectSeq(pairs, LAMBDA p : p[2].t # "absent"))

\* isinstance(x, dict) / isinstance(x, list)
IsDict(x) == x.t = "dict"
IsList(x) == x.t = "list"
\* isinstance(x, int): bool is a subclass of int in Python.
IsInstanceInt(x) == x.t \in {"int", "bool"}

Keys(d) == {d.v[i][1] : i \in DOMAIN d.v}
\* k in d
Has(d, k) == k \in Keys(d)
\* d[k]
Item(d, k) == d.v[CHOOSE i \in DOMAIN d.v : d.v[i][1] = k][2]
\* d.get(k, default)
Get(d, k, default) == IF Has(d, k) THEN Item(d, k) ELSE default
\* list(d.values())
Values(d) == {d.v[i][2] : i \in DOMAIN d.v}
\* bool(x) for a list or a dict
Truthy(x) == Len(x.v) > 0

(***************************************************************************)
(* validate_layout_config                                                  *)
(***************************************************************************)
Required == {"x", "y", "w", "h"}

valid_slot(slot) ==
    /\ IsDict(slot)
    /\ Required \subseteq Keys(slot)
    /\ \A k \in Required : IsInstanceInt(Item(slot, k))

valid_format(fmt) ==
    IF ~IsDict(fmt) THEN FALSE
    ELSE LET slots == Get(fmt, "slots", None)
             text_pos == Get(fmt, "text_pos", None)
         IN  IF ~IsList(slots) \/ ~Truthy(slots)
                \/ ~(\A i \in DOMAIN slots.v : valid_slot(slots.v[i]))
             THEN FALSE
             ELSE IF text_pos.t # "null" /\ ~IsDict(text_pos) THEN FALSE
             ELSE TRUE

validate_layout_config(config) ==
    IF ~IsDict(config) THEN FALSE
    ELSE IF Has(config, "formats")
         THEN LET formats == Get(config, "formats", None)
              IN  /\ IsDict(formats)
                  /\ Truthy(formats)
                  /\ \A fmt \in Values(formats) : valid_format(fmt)
         ELSE valid_format(config)

(***************************************************************************)
(* Idle values: what a specification leaves the other groups at.           *)
(***************************************************************************)
IdleValidate == vconfig = None /\ vresult = "none"
IdleConfig   == heap = <<>> /\ root = None /\ handles = <<>> /\ loaded = None
IdleMain     == /\ fs = <<>> /\ selected_template = "" /\ selected_format = ""
                /\ uploaded_files = <<>> /\ model_input = "" /\ generate_btn = FALSE
                /\ events = <<>> /\ session = <<>>
IdleFormat   == typed = <<>> /\ state = <<>> /\ last = <<>>
IdleText     == tin = <<>> /\ drawn = <<>>
IdleFit      == fitin = <<>> /\ fitted = <<>>
IdlePipe     == images = <<>> /\ pipe = <<>>

(***************************************************************************)
(* SpecValidate: layout.json contents a brand folder may hold, each given  *)
(* to validate_layout_config once.                                         *)
(***************************************************************************)
GoodSlot == JDict(<< <<"x", JInt(0)>>, <<"y", JInt(0)>>, <<"w", JInt(100)>>, <<"h", JInt(50)>> >>)

\* Values tried for a slot's "w": integers, and JSON values that are not integers.
WidthValues == {Absent, JInt(0), JInt(100), JStr("100"), JFloat(100), JBool(TRUE), None}

SlotValues ==
    {MkDict(<< <<"x", xv>>, <<"y", JInt(0)>>, <<"w", wv>>, <<"h", JInt(50)>> >>) :
        xv \in {Absent, JInt(0)}, wv \in WidthValues}
    \cup {None, JInt(5), JList(<<>>)}

SlotsValues ==
    {Absent, None, JList(<<>>), JDict(<<>>), JStr("slots")}
    \cup {JList(<<s>>) : s \in SlotValues}
    \cup {JList(<<GoodSlot, s>>) : s \in SlotValues}

TextPosValues ==
    {Absent, None, JDict(<<>>), JList(<<>>), JStr("pos"),
     JDict(<< <<"modelo", JList(<<JInt(40), JInt(900)>>)>> >>)}

FormatValues ==
    {MkDict(<< <<"slots", sl>>, <<"text_pos", tp>> >>) :
        sl \in SlotsValues, tp \in TextPosValues}
    \cup {None, JList(<<>>), JInt(1)}

GoodFormat == JDict(<< <<"slots", JList(<<GoodSlot>>)>> >>)

FormatsValues ==
    {None, JList(<<>>), JDict(<<>>)}
    \cup {JDict(<< <<"1080x1350", f>> >>) : f \in FormatValues}
    \cup {JDict(<< <<"1080x1350", GoodFormat>>, <<"1080x1080", f>> >>) : f \in FormatValues}

ConfigValues ==
    {None, JList(<<>>), JInt(1), JStr("layout")}
    \cup {f \in FormatValues : IsDict(f)}
    \cup {JDict(<< <<"formats", fs_>> >>) : fs_ \in FormatsValues}
    \* "formats" decides even when the root is itself a valid format
    \cup {JDict(<< <<"formats", fs_>>, <<"slots", JList(<<GoodSlot>>)>> >>) :
            fs_ \in {None, JDict(<<>>), JDict(<< <<"1080x1350", GoodFormat>> >>)}}

InitValidate ==
    /\ vconfig \in ConfigValues
    /\ vresult = "none"
    /\ IdleConfig /\ IdleMain /\ IdleFormat /\ IdleText /\ IdleFit /\ IdlePipe

Validate ==
    /\ vresult = "none"
    /\ vresult' = IF validate_layout_config(vconfig) THEN "True" ELSE "False"
    /\ UNCHANGED <<vconfig, configVars, mainVars, formatVars, textVars, fitVars, pipeVars>>

NextValidate == Validate

SpecValidate == InitValidate /\ [][NextValidate]_vars

(***************************************************************************)
(* C1.  The validator's contract as the specification words it: true iff   *)
(* the configuration is a mapping and either its "formats" value is a      *)
(* non-empty mapping of valid formats, or (no "formats" key) it is itself  *)
(* a valid format; a valid format is a mapping whose "slots" is a          *)
(* non-empty list of mappings each holding integer x, y, w, h and whose    *)
(* "text_pos", if present, is a mapping.                                   *)
(***************************************************************************)
IsInteger(x) == x.t = "int"

ContractSlot(slot) ==
    /\ IsDict(slot)
    /\ \A k \in {"x", "y", "w", "h"} : Has(slot, k) /\ IsInteger(Item(slot, k))

ContractFormat(fmt) ==
    /\ IsDict(fmt)
    /\ Has(fmt, "slots")
    /\ IsList(Item(fmt, "slots"))
    /\ Len(Item(fmt, "slots").v) > 0
    /\ \A i \in DOMAIN Item(fmt, "slots").v : ContractSlot(Item(fmt, "slots").v[i])
    /\ Has(fmt, "text_pos") => IsDict(Item(fmt, "text_pos"))

ContractConfig(c) ==
    /\ IsDict(c)
    /\ IF Has(c, "formats")
       THEN /\ IsDict(Item(c, "formats"))
            /\ Len(Item(c, "formats").v) > 0
            /\ \A f \in Values(Item(c, "formats")) : ContractFormat(f)
       ELSE ContractFormat(c)

\* C1: validate_layout_config(config) is true exactly when the contract holds.
C1_ValidatorMatchesContract ==
    vresult # "none" => (vresult = "True" <=> ContractConfig(vconfig))

(***************************************************************************)
(* Python objects.  json.load, copy.deepcopy and {} each build a tree of   *)
(* dict and list objects; the heap is the sequence of these trees.  A      *)
(* reference [t |-> "ref", v |-> <<a, path>>] denotes the object reached   *)
(* in tree a by the keys and list positions of path.  A dict entry holds   *)
(* its object in place, or a reference to an object of another tree (what  *)
(* d[k] = obj leaves when obj lives elsewhere).  ints, strings, bools and  *)
(* None are immutable and held by value.                                   *)
(***************************************************************************)
Ref(a, path) == [t |-> "ref", v |-> <<a, path>>]
IsObject(x) == x.t \in {"dict", "list"}

\* x[k] for a dict (k a key) or a list (k a position)
Child(x, k) == IF IsDict(x) THEN Item(x, k) ELSE x.v[k]

RECURSIVE At(_, _)
At(x, path) == IF Len(path) = 0 THEN x ELSE At(Child(x, path[1]), Tail(path))

\* The object a reference denotes
Target(h, ref) == At(h[ref.v[1]], ref.v[2])

\* obj[k] as Python hands it out: a reference when it is an object
Entry(h, ref, k) ==
    LET val == Child(Target(h, ref), k)
    IN  IF IsObject(val) THEN Ref(ref.v[1], Append(ref.v[2], k)) ELSE val

RECURSIVE Deref(_, _), DerefItems(_, _, _)
\* The value x denotes on heap h, references followed.
Deref(h, x) ==
    IF x.t = "ref" THEN Deref(h, Target(h, x))
    ELSE IF IsObject(x) THEN [t |-> x.t, v |-> DerefItems(h, x.v, IsDict(x))]
    ELSE x
DerefItems(h, xs, dict) ==
    IF Len(xs) = 0 THEN <<>>
    ELSE <<IF dict THEN <<xs[1][1], Deref(h, xs[1][2])>> ELSE Deref(h, xs[1])>>
         \o DerefItems(h, Tail(xs), dict)

\* A new tree: [h |-> the heap after, r |-> the reference to it]
New(h, x) == [h |-> Append(h, x), r |-> Ref(Len(h) + 1, <<>>)]

\* copy.deepcopy(x): a fresh copy of everything reachable from x.
deepcopy(h, x) == New(h, Deref(h, x))

\* d[k] = val on a dict d: replaces the entry, or appends a new one.
SetItem(d, k, val) ==
    IF Has(d, k)
    THEN [d EXCEPT !.v = [i \in DOMAIN d.v |->
                            IF d.v[i][1] = k THEN <<k, val>> ELSE d.v[i]]]
    ELSE [d EXCEPT !.v = Append(d.v, <<k, val>>)]

RECURSIVE Put(_, _, _, _)
\* Tree x with entry k of the dict at path set to val
Put(x, path, k, val) ==
    IF Len(path) = 0 THEN SetItem(x, k, val)
    ELSE IF IsDict(x)
    THEN SetItem(x, path[1], Put(Item(x, path[1]), Tail(path), k, val))
    ELSE [x EXCEPT !.v[path[1]] = Put(x.v[path[1]], Tail(path), k, val)]

\* obj[k] = val through a reference
Store(h, ref, k, val) == [h EXCEPT ![ref.v[1]] = Put(h[ref.v[1]], ref.v[2], k, val)]

(***************************************************************************)
(* get_available_formats / get_format_config                               *)
(***************************************************************************)
\* On a parsed value: list(config["formats"].keys()) or ["default"].
get_available_formats(cfg) ==
    IF Has(cfg, "formats")
    THEN [i \in DOMAIN Item(cfg, "formats").v |-> Item(cfg, "formats").v[i][1]]
    ELSE <<"default">>

\* On the heap: [h |-> the heap after the call, r |-> the reference returned].
get_format_config(h, cfg, format_name) ==
    IF Has(Target(h, cfg), "formats")
    THEN LET formats == Entry(h, cfg, "formats")
             \* config["formats"].get(format_name, {}): the stored format, or a new {}
             src == IF Has(Target(h, formats), format_name)
                    THEN [h |-> h, r |-> Entry(h, formats, format_name)]
                    ELSE New(h, JDict(<<>>))
             copy == deepcopy(src.h, src.r)
             \* config.get("font_size", {}): the stored object itself, or a new {}
             fsz == IF Has(Target(h, cfg), "font_size")
                    THEN [h |-> copy.h, r |-> Entry(h, cfg, "font_size")]
                    ELSE New(copy.h, JDict(<<>>))
             color == Get(Target(h, cfg), "font_color", JStr("#FFFFFF"))
         IN  [h |-> Store(Store(fsz.h, copy.r, "font_size", fsz.r),
                          copy.r, "font_color", color),
              r |-> copy.r]
    ELSE [h |-> h, r |-> cfg]

(***************************************************************************)
(* SpecConfig: a valid configuration is loaded once; get_format_config is  *)
(* called for available formats and its results are then written to, as a *)
(* caller that appends computed keys or adjusts slots and font sizes does. *)
(***************************************************************************)
MaxHandles == 2
MaxValue == 2

SlotOf(w, h) == JDict(<< <<"x", JInt(0)>>, <<"y", JInt(0)>>, <<"w", JInt(w)>>, <<"h", JInt(h)>> >>)
FontSizes == JDict(<< <<"modelo", JInt(42)>>, <<"default", JInt(22)>> >>)

StoredConfigs ==
    {MkDict(<< <<"slots", JList(<<SlotOf(4, 4), SlotOf(4, 2)>>)>>,
               <<"text_pos", JDict(<<>>)>>,
               <<"font_size", fsz>> >>) : fsz \in {Absent, FontSizes}}
    \cup
    {MkDict(<< <<"formats", JDict(<<
                   <<"1080x1350", JDict(<< <<"slots", JList(<<SlotOf(4, 5)>>)>> >>)>>,
                   <<"1080x1080", JDict(<< <<"slots", JList(<<SlotOf(4, 4), SlotOf(2, 2)>>)>> >>)>> >>)>>,
               <<"font_size", fsz>>,
               <<"font_color", JStr("#000000")>> >>) : fsz \in {Absent, FontSizes}}

InitConfig ==
    /\ loaded \in StoredConfigs
    /\ validate_layout_config(loaded)
    /\ heap = New(<<>>, loaded).h
    /\ root = New(<<>>, loaded).r
    /\ handles = <<>>
    /\ IdleValidate /\ IdleMain /\ IdleFormat /\ IdleText /\ IdleFit /\ IdlePipe

otherThanConfig == <<validateVars, mainVars, formatVars, textVars, fitVars, pipeVars>>

\* format_config = get_format_config(config, format_name)
GetFormatConfig ==
    /\ Len(handles) < MaxHandles
    /\ \E i \in DOMAIN get_available_formats(loaded) :
         LET name == get_available_formats(loaded)[i]
             got == get_format_config(heap, root, name)
         IN  /\ heap' = got.h
             /\ handles' = Append(handles, [name |-> name, ref |-> got.r])
    /\ UNCHANGED <<root, loaded, otherThanConfig>>

\* format_config["computed"] = n
AddKey ==
    /\ \E i \in DOMAIN handles, n \in 1..MaxValue :
         heap' = Store(heap, handles[i].ref, "computed", JInt(n))
    /\ UNCHANGED <<root, handles, loaded, otherThanConfig>>

\* format_config["slots"][0]["w"] = n
ChangeSlot ==
    /\ \E i \in DOMAIN handles, n \in 1..MaxValue :
         LET fc == handles[i].ref
         IN  /\ Has(Target(heap, fc), "slots")
             /\ Len(Target(heap, Entry(heap, fc, "slots")).v) > 0
             /\ heap' = Store(heap, Entry(heap, Entry(heap, fc, "slots"), 1), "w", JInt(n))
    /\ UNCHANGED <<root, handles, loaded, otherThanConfig>>

\* format_config["font_size"]["modelo"] = n
ChangeFontSize ==
    /\ \E i \in DOMAIN handles, n \in 1..MaxValue :
         LET fc == handles[i].ref
         IN  /\ Has(Target(heap, fc), "font_size")
             /\ heap' = Store(heap, Entry(heap, fc, "font_size"), "modelo", JInt(n))
    /\ UNCHANGED <<root, handles, loaded, otherThanConfig>>

NextConfig == GetFormatConfig \/ AddKey \/ ChangeSlot \/ ChangeFontSize

SpecConfig == InitConfig /\ [][NextConfig]_vars

\* What get_format_config returns for a format on heap h, as a value.
FormatValue(h, cfg, name) ==
    LET got == get_format_config(h, cfg, name) IN Deref(got.h, got.r)

(***************************************************************************)
(* C2.  Whatever is done to the format configs get_format_config returned, *)
(* the stored configuration keeps its load-time value and a later          *)
(* get_format_config call, for any format, returns what it would have      *)
(* returned right after load.                                              *)
(***************************************************************************)
C2_ReturnedConfigIsIndependent ==
    /\ Deref(heap, root) = loaded
    /\ \A i \in DOMAIN get_available_formats(loaded) :
         LET name == get_available_formats(loaded)[i]
         IN  FormatValue(heap, root, name)
               = FormatValue(New(<<>>, loaded).h, New(<<>>, loaded).r, name)

(***************************************************************************)
(* process_photo.  A photo is a decoded image [name, w, h, transposed]:    *)
(* w and h are its stored size (positive: Image.open yields no empty       *)
(* image), transposed says its EXIF orientation turns it by a quarter, so  *)
(* that ImageOps.exif_transpose swaps width and height.  A slot is the     *)
(* dict of the layout.                                                     *)
(***************************************************************************)
Max(a, b) == IF a >= b THEN a ELSE b
Min(a, b) == IF a <= b THEN a ELSE b

\* str.lower() on the fit_mode strings of the model
Lower(str) ==
    CASE str = "AUTO" -> "auto"
      [] str = "COVER" -> "cover"
      [] str = "CONTAIN" -> "contain"
      [] OTHER -> str

\* ImageOps.exif_transpose(photo): the size after the orientation is applied
NormalizedWidth(photo)  == IF photo.transposed THEN photo.h ELSE photo.w
NormalizedHeight(photo) == IF photo.transposed THEN photo.w ELSE photo.h

\* fit_mode = slot.get("fit_mode", "auto").lower(), unknown modes read as auto
FitMode(slot) ==
    LET fit_mode == Lower(Get(slot, "fit_mode", JStr("auto")).v)
    IN  IF fit_mode \notin {"auto", "cover", "contain"} THEN "auto" ELSE fit_mode

(***************************************************************************)
(* Python's `/` on the sizes: IEEE 754 double division, correctly rounded  *)
(* (to nearest, ties to even).  A positive double is [m, e] with m its     *)
(* 53-bit significand and value m * 2^e; m is a little-endian sequence of  *)
(* five limbs in base 2^13 (the top limb is the leading bit), since a      *)
(* significand does not fit the model checker's integers.                  *)
(***************************************************************************)
Limb == 2^13

RECURSIVE MulSmall(_, _, _)
\* A * n + carry, for a limb sequence A and 0 <= n, carry < Limb
MulSmall(A, n, carry) ==
    IF Len(A) = 0 THEN (IF carry = 0 THEN <<>> ELSE <<carry>>)
    ELSE <<(A[1] * n + carry) % Limb>>
         \o MulSmall(Tail(A), n, (A[1] * n + carry) \div Limb)

RECURSIVE AddLimbs(_, _, _)
AddLimbs(A, C, carry) ==
    IF Len(A) = 0 /\ Len(C) = 0 THEN (IF carry = 0 THEN <<>> ELSE <<carry>>)
    ELSE LET x == IF Len(A) = 0 THEN 0 ELSE A[1]
             y == IF Len(C) = 0 THEN 0 ELSE C[1]
         IN  <<(x + y + carry) % Limb>>
             \o AddLimbs(IF Len(A) = 0 THEN A ELSE Tail(A),
                         IF Len(C) = 0 THEN C ELSE Tail(C),
                         (x + y + carry) \div Limb)

RECURSIVE MulLimbs(_, _)
MulLimbs(A, C) ==
    IF Len(C) = 0 THEN <<>>
    ELSE AddLimbs(MulSmall(A, C[1], 0), <<0>> \o MulLimbs(A, Tail(C)), 0)

\* A * 2^k
ShiftLimbs(A, k) ==
    [i \in 1..(k \div 13) |-> 0] \o MulSmall(A, 2^(k % 13), 0)

RECURSIVE Strip(_)
\* without its leading (most significant) zero limbs
Strip(A) ==
    IF Len(A) > 0 /\ A[Len(A)] = 0 THEN Strip(SubSeq(A, 1, Len(A) - 1)) ELSE A

RECURSIVE GreaterStripped(_, _)
GreaterStripped(A, C) ==
    IF Len(A) # Len(C) THEN Len(A) > Len(C)
    ELSE IF Len(A) = 0 THEN FALSE
    ELSE IF A[Len(A)] # C[Len(C)] THEN A[Len(A)] > C[Len(C)]
    ELSE GreaterStripped(SubSeq(A, 1, Len(A) - 1), SubSeq(C, 1, Len(C) - 1))

\* A > C and A = C as numbers
GreaterLimbs(A, C) == GreaterStripped(Strip(A), Strip(C))
EqualLimbs(A, C) == Strip(A) = Strip(C)

RECURSIVE Normalize(_, _, _)
\* [a, b, s] with a / b * 2^s the quotient given and b <= a < 2 * b
Normalize(a, b, s) ==
    IF a < b THEN Normalize(2 * a, b, s - 1)
    ELSE IF a >= 2 * b THEN Normalize(a, 2 * b, s + 1)
    ELSE [a |-> a, b |-> b, s |-> s]

\* float(a) / float(b) for integers a, b >= 1: 52 quotient bits after the
\* leading one, 13 at a time, then rounding on the remainder.
DoubleDiv(a, b) ==
    LET n == Normalize(a, b, 0)
        r4 == n.a - n.b
        c4 == (r4 * Limb) \div n.b
        r3 == (r4 * Limb) % n.b
        c3 == (r3 * Limb) \div n.b
        r2 == (r3 * Limb) % n.b
        c2 == (r2 * Limb) \div n.b
        r1 == (r2 * Limb) % n.b
        c1 == (r1 * Limb) \div n.b
        r0 == (r1 * Limb) % n.b
        m == <<c1, c2, c3, c4, 1>>
        up == 2 * r0 > n.b \/ (2 * r0 = n.b /\ c1 % 2 = 1)
        sum == AddLimbs(m, <<1>>, 0)
    IN  IF ~up THEN [m |-> m, e |-> n.s - 52]
        ELSE IF sum[5] = 2 THEN [m |-> <<0, 0, 0, 0, 1>>, e |-> n.s - 51]
        ELSE [m |-> sum, e |-> n.s - 52]

\* x / y > t in doubles, for doubles x >= y > 0 and threshold t: the rounded
\* quotient exceeds t iff the exact one exceeds the midpoint of t and its
\* successor, or is that midpoint and the tie goes to the (even) successor.
DoubleQuotientExceeds(x, y, t) ==
    LET mid == AddLimbs(MulSmall(t.m, 2, 0), <<1>>, 0)
        k == x.e - y.e - t.e + 1
        lhs == ShiftLimbs(x.m, k)
        rhs == MulLimbs(y.m, mid)
    IN  \/ GreaterLimbs(lhs, rhs)
        \/ EqualLimbs(lhs, rhs) /\ t.m[1] % 2 = 1

(***************************************************************************)
(* ratio_diff > 1.2, where                                                 *)
(*   photo_ratio = nw / nh if nh else 1, slot_ratio = w / h if h else 1    *)
(*   ratio_diff  = max / min if min else 1                                 *)
(* for a photo of positive size.  A slot ratio of zero gives ratio_diff 1, *)
(* a negative one a negative ratio_diff: neither exceeds 1.2.              *)
(***************************************************************************)
RatioDiffExceeds(nw, nh, w, h) ==
    LET photo_ratio == DoubleDiv(nw, nh)
        pos == h = 0 \/ (w > 0 /\ h > 0) \/ (w < 0 /\ h < 0)
        sw == IF h = 0 THEN 1 ELSE IF w > 0 THEN w ELSE -w
        sh == IF h = 0 THEN 1 ELSE IF h > 0 THEN h ELSE -h
        slot_ratio == DoubleDiv(sw, sh)
        photo_max == nw * sh >= sw * nh
    IN  IF ~pos THEN FALSE
        ELSE DoubleQuotientExceeds(IF photo_max THEN photo_ratio ELSE slot_ratio,
                                   IF photo_max THEN slot_ratio ELSE photo_ratio,
                                   DoubleDiv(6, 5))

\* use_contain = fit_mode == "contain" or (fit_mode == "auto" and ratio_diff > 1.2)
UseContain(photo, slot) ==
    \/ FitMode(slot) = "contain"
    \/ /\ FitMode(slot) = "auto"
       /\ RatioDiffExceeds(NormalizedWidth(photo), NormalizedHeight(photo),
                           Item(slot, "w").v, Item(slot, "h").v)

\* What process_photo returns: the slot-sized RGBA image, described by the photo
\* it shows, the branch that fitted it and the corner mask applied.  Pillow
\* raises on a size that is not positive (ImageOps.contain / ImageOps.fit
\* divide by the height and Image.resize refuses a zero side).
process_photo(photo, slot) ==
    LET width == Item(slot, "w").v
        height == Item(slot, "h").v
        radius == Get(slot, "radius", JInt(0)).v
    IN  IF width <= 0 \/ height <= 0
        THEN [raised |-> TRUE, photo |-> photo.name, w |-> width, h |-> height,
              fit |-> "none", radius |-> 0]
        ELSE [raised |-> FALSE, photo |-> photo.name, w |-> width, h |-> height,
              fit |-> IF UseContain(photo, slot) THEN "contain" ELSE "cover",
              radius |-> IF radius > 0 THEN radius ELSE 0]

(***************************************************************************)
(* SpecFit: one photo fitted into one slot.                                *)
(***************************************************************************)
MaxDim == 6

FitPhotos ==
    {[name |-> 1, w |-> pw, h |-> ph, transposed |-> tr] :
        pw \in 1..MaxDim, ph \in 1..MaxDim, tr \in BOOLEAN}

FitModes == {Absent, JStr("auto"), JStr("cover"), JStr("contain"), JStr("COVER"), JStr("stretch")}

FitSlots ==
    {MkDict(<< <<"x", JInt(0)>>, <<"y", JInt(0)>>, <<"w", JInt(sw)>>, <<"h", JInt(sh)>>,
               <<"radius", rad>>, <<"fit_mode", fm>> >>) :
        sw \in 0..MaxDim, sh \in 0..MaxDim, rad \in {Absent, JInt(2)}, fm \in FitModes}

InitFit ==
    /\ fitin \in {[photo |-> ph, slot |-> sl] : ph \in FitPhotos, sl \in FitSlots}
    /\ fitted = <<>>
    /\ IdleValidate /\ IdleConfig /\ IdleMain /\ IdleFormat /\ IdleText /\ IdlePipe

Fit ==
    /\ fitted = <<>>
    /\ fitted' = process_photo(fitin.photo, fitin.slot)
    /\ UNCHANGED <<fitin, validateVars, configVars, mainVars, formatVars, textVars, pipeVars>>

NextFit == Fit

SpecFit == InitFit /\ [][NextFit]_vars

(***************************************************************************)
(* C9.  An 'auto' slot is fitted as 'contain' exactly when                 *)
(* max(photo_ratio, slot_ratio) / min(photo_ratio, slot_ratio) > 1.2 (the  *)
(* ratios of the real numbers width / height) and as 'cover' otherwise;    *)
(* 'cover' and 'contain' are used as given; and the output is the one the  *)
(* same slot gives with 'auto' replaced by the resolved mode.              *)
(***************************************************************************)
\* max / min > 6/5 for the fractions a/b and c/d, all four positive
QuotientExceeds(a, b, c, d) ==
    5 * Max(a * d, c * b) > 6 * Min(a * d, c * b)

ResolvedMode(photo, slot) ==
    IF FitMode(slot) # "auto" THEN FitMode(slot)
    ELSE IF QuotientExceeds(NormalizedWidth(photo), NormalizedHeight(photo),
                            Item(slot, "w").v, Item(slot, "h").v)
         THEN "contain" ELSE "cover"

WithMode(slot, mode) == SetItem(slot, "fit_mode", JStr(mode))

C9_AutoResolvesByRatio ==
    (fitted # <<>> /\ ~fitted.raised) =>
        /\ fitted.fit = ResolvedMode(fitin.photo, fitin.slot)
        /\ fitted = process_photo(fitin.photo,
                                  WithMode(fitin.slot, ResolvedMode(fitin.photo, fitin.slot)))

(***************************************************************************)
(* main(): Streamlit reruns the whole script on every widget interaction.  *)
(* A rerun is one action; `events` lists what it did, in order.            *)
(***************************************************************************)
Event(e, a, n, w, h) == [e |-> e, a |-> a, n |-> n, w |-> w, h |-> h]
\* st.error(...)
Error(what, n)        == Event("error", what, n, 0, 0)
\* st.warning(...)
Warning(what)         == Event("warning", what, 0, 0, 0)
\* Image.open(f).convert("RGBA") returned for uploaded file n
Opened(n)             == Event("open", "", n, 0, 0)
\* composite_images(...) entered with n photos
Composite(n)          == Event("composite_images", "", n, 0, 0)
\* process_photo(photo n, slot of size w x h) entered
ProcessPhoto(n, w, h) == Event("process_photo", "", n, w, h)
\* result.paste(...) of photo n
Paste(n)              == Event("paste", "", n, 0, 0)
\* render_text(...) entered
RenderText            == Event("render_text", "", 0, 0, 0)
\* st.image(...): "preview" or "result"
Shown(what)           == Event("image", what, 0, 0, 0)
\* st.session_state[...] = ... (the three download keys)
Cached                == Event("cache", "", 0, 0, 0)
\* st.download_button(...)
DownloadButton        == Event("download_button", "", 0, 0, 0)
\* an exception no handler of the script catches: the rerun stops there
Uncaught(what)        == Event("exception", what, 0, 0, 0)

\* scan_template_folders: the folders found, sorted
AllTemplates == <<"Template A", "Template B">>
scan_template_folders(disk) == SelectSeq(AllTemplates, LAMBDA t : t \in DOMAIN disk)

\* load_layout_config without its validation step
load_layout_config_unvalidated(folder) ==
    IF folder.layout.st = "missing"
    THEN [config |-> None, errors |-> <<Error("layout.json not found", 0)>>]
    ELSE IF folder.layout.st = "badjson"
    THEN [config |-> None, errors |-> <<Error("Invalid JSON in layout.json", 0)>>]
    ELSE [config |-> folder.layout.json, errors |-> <<>>]

\* load_layout_config(template_path): the config or None, and the errors shown
load_layout_config(folder) ==
    IF folder.layout.st = "missing"
    THEN [config |-> None, errors |-> <<Error("layout.json not found", 0)>>]
    ELSE IF folder.layout.st = "badjson"
    THEN [config |-> None, errors |-> <<Error("Invalid JSON in layout.json", 0)>>]
    ELSE IF ~validate_layout_config(folder.layout.json)
    THEN [config |-> None, errors |-> <<Error("Invalid layout configuration", 0)>>]
    ELSE [config |-> folder.layout.json, errors |-> <<>>]

NoImage == [kind |-> "none"]

\* load_template_image(template_path, format_config): the image or None
load_template_image(folder, format_config) ==
    LET template_file == Get(format_config, "template_file", JStr("1080x1350.png")).v
        status == IF template_file \in DOMAIN folder.files
                  THEN folder.files[template_file] ELSE "missing"
    IN  IF status = "missing"
        THEN [image |-> NoImage, errors |-> <<Error("Template image not found", 0)>>]
        ELSE IF status = "corrupt"
        THEN [image |-> NoImage, errors |-> <<Error("Error loading template image", 0)>>]
        ELSE [image |-> [kind |-> "template", file |-> template_file], errors |-> <<>>]

\* What Image.open(f).convert("RGBA") gives for a readable upload
Decoded(f) == [name |-> f.name, w |-> 4, h |-> 3, transposed |-> FALSE]

RECURSIVE LoadPhotosContinuing(_, _)
\* The loop with the return of its except branch removed: the failure is
\* reported, the file is kept as a blank photo and the loop goes on
LoadPhotosContinuing(files, photos) ==
    IF Len(files) = 0 THEN [photos |-> photos, events |-> <<>>, failed |-> FALSE]
    ELSE LET rest == LoadPhotosContinuing(Tail(files), Append(photos, Decoded(files[1])))
         IN  [rest EXCEPT !.events =
                 <<IF files[1].ok THEN Opened(files[1].name)
                   ELSE Error("Erro ao carregar imagem", files[1].name)>> \o rest.events]

RECURSIVE LoadPhotos(_, _)
\* for f in uploaded_files: try: photos.append(open f) except: st.error; return
\* [photos, events, failed] from the files still to read and the photos so far
LoadPhotos(files, photos) ==
    IF Len(files) = 0 THEN [photos |-> photos, events |-> <<>>, failed |-> FALSE]
    ELSE IF ~files[1].ok
    THEN [photos |-> photos, events |-> <<Error("Erro ao carregar imagem", files[1].name)>>,
          failed |-> TRUE]
    ELSE LET rest == LoadPhotos(Tail(files), Append(photos, Decoded(files[1])))
         IN  [rest EXCEPT !.events = <<Opened(files[1].name)>> \o rest.events]

RECURSIVE PadPhotosRepeatingLast(_, _, _)
\* The padding loop appending the last photo instead of photos[len(photos) % n]
PadPhotosRepeatingLast(photos, num_slots, n_uploaded) ==
    IF Len(photos) < num_slots
    THEN PadPhotosRepeatingLast(Append(photos, photos[Len(photos)]), num_slots, n_uploaded)
    ELSE photos

RECURSIVE PadPhotos(_, _, _)
\* while len(photos) < num_slots: photos.append(photos[len(photos) % len(uploaded_files)])
PadPhotos(photos, num_slots, n_uploaded) ==
    IF Len(photos) < num_slots
    THEN PadPhotos(Append(photos, photos[(Len(photos) % n_uploaded) + 1]), num_slots, n_uploaded)
    ELSE photos

\* One turn of the loop of composite_images, from the processed photo and
\* what the remaining turns do
PasteStep(photo, slot, processed, rest) ==
    IF processed.raised
    THEN [pasted |-> <<>>,
          events |-> <<ProcessPhoto(photo.name, Item(slot, "w").v, Item(slot, "h").v),
                       Uncaught("process_photo")>>,
          raised |-> TRUE]
    ELSE [pasted |-> <<[image |-> processed, x |-> Item(slot, "x").v, y |-> Item(slot, "y").v]>>
                     \o rest.pasted,
          events |-> <<ProcessPhoto(photo.name, Item(slot, "w").v, Item(slot, "h").v),
                       Paste(photo.name)>> \o rest.events,
          raised |-> rest.raised]

RECURSIVE PasteAll(_, _)
\* for photo, slot in zip(photos, slots): processed = process_photo(photo, slot); paste
PasteAll(photos, slots) ==
    IF Len(photos) = 0 \/ Len(slots) = 0
    THEN [pasted |-> <<>>, events |-> <<>>, raised |-> FALSE]
    ELSE PasteStep(photos[1], slots[1], process_photo(photos[1], slots[1]),
                   PasteAll(Tail(photos), Tail(slots)))

\* The card composite_images builds from what its loop did
Pasted(template, n, done) ==
    [image |-> [kind |-> "card", template |-> template, pasted |-> done.pasted, text |-> FALSE],
     events |-> <<Composite(n)>> \o done.events,
     raised |-> done.raised]

\* composite_images(template, photos, slots): a copy of the template with the
\* processed photos pasted at their slots
composite_images(template, photos, slots) ==
    Pasted(template, Len(photos), PasteAll(photos, slots))

\* photos[:num_slots]
Take(seq, n) == SubSeq(seq, 1, Min(Len(seq), n))

\* The generate branch once the photos are read and padded and composite_images
\* has returned or raised: render_text, st.image, the download cache.
\* The text drawn by render_text is the subject of SpecText; here the call is
\* recorded and its result is the composite marked as carrying text.
Rendered(before, comp, model, format, cache) ==
    IF comp.raised
    THEN [events |-> before \o comp.events, cache |-> cache, done |-> FALSE]
    ELSE [events |-> before \o comp.events \o <<RenderText, Shown("result"), Cached>>,
          cache |-> [has |-> TRUE,
                     generated_image |-> [comp.image EXCEPT !.text = TRUE],
                     model_name |-> IF model = "" THEN "card" ELSE model,
                     selected_format |-> format],
          done |-> TRUE]

\* The generate branch storing the model name before the photos are read
LoadedNamingFirst(template_image, slots, warn, read, n_uploaded, model, format, cache) ==
    IF read.failed
    THEN [events |-> warn \o read.events,
          cache |-> [cache EXCEPT !.model_name = IF model = "" THEN "card" ELSE model],
          done |-> FALSE]
    ELSE Rendered(warn \o read.events,
                  composite_images(template_image,
                                   Take(PadPhotos(read.photos, Len(slots), n_uploaded), Len(slots)),
                                   slots),
                  model, format, cache)

\* The generate branch once the uploads are read
Loaded(template_image, slots, warn, read, n_uploaded, model, format, cache) ==
    IF read.failed
    THEN [events |-> warn \o read.events, cache |-> cache, done |-> FALSE]
    ELSE Rendered(warn \o read.events,
                  composite_images(template_image,
                                   Take(PadPhotos(read.photos, Len(slots), n_uploaded), Len(slots)),
                                   slots),
                  model, format, cache)

\* The generate branch of main (if generate_btn: ...), the download cache it
\* starts from, and what it leaves: [events, cache, done]; done is false when the
\* branch returned or raised before its end.
Generate(template_image, slots, files, model, format, cache) ==
    IF Len(files) = 0
    THEN [events |-> <<Error("Por favor, faca upload de pelo menos uma foto", 0)>>,
          cache |-> cache, done |-> FALSE]
    ELSE Loaded(template_image, slots,
                IF Len(files) < Len(slots) THEN <<Warning("As fotos serao repetidas")>> ELSE <<>>,
                LoadPhotos(files, <<>>), Len(files), model, format, cache)

\* The value of the format selectbox in a run: the option held if it is still
\* offered, else the first option.
FormatChoice(held, available_formats) ==
    IF \E i \in DOMAIN available_formats : available_formats[i] = held
    THEN held ELSE available_formats[1]

\* get_format_config on the configuration json.load returned, as a value
FormatConfigOf(layout_config, format) ==
    FormatValue(New(<<>>, layout_config).h, New(<<>>, layout_config).r, format)

\* main after the generate branch: the download section
Downloads(gen, format) ==
    IF ~gen.done
    THEN [events |-> <<Shown("preview")>> \o gen.events, format |-> format, cache |-> gen.cache]
    ELSE [events |-> <<Shown("preview")>> \o gen.events \o <<DownloadButton>>,
          format |-> format, cache |-> gen.cache]

\* main from the template image on: the form, the preview, the generate button
Form(tmpl, format, format_config, files, model, clicked, cache) ==
    IF tmpl.image.kind = "none"
    THEN [events |-> tmpl.errors, format |-> format, cache |-> cache]
    ELSE IF ~clicked
    THEN [events |-> <<Shown("preview")>> \o (IF cache.has THEN <<DownloadButton>> ELSE <<>>),
          format |-> format, cache |-> cache]
    ELSE Downloads(Generate(tmpl.image, Get(format_config, "slots", JList(<<>>)).v,
                            files, model, format, cache),
                   format)

\* main from the format selectbox on
Format(folder, layout_config, format, files, model, clicked, cache) ==
    Form(load_template_image(folder, FormatConfigOf(layout_config, format)), format,
         FormatConfigOf(layout_config, format), files, model, clicked, cache)

\* main from load_layout_config on
Layout(folder, layout, format, files, model, clicked, cache) ==
    IF layout.config.t = "null"
    THEN [events |-> layout.errors, format |-> format, cache |-> cache]
    ELSE Format(folder, layout.config,
                FormatChoice(format, get_available_formats(layout.config)),
                files, model, clicked, cache)

\* One run of main() on the disk and the widget values: what it did, the format
\* selected in it, and the download cache after it.
main(disk, template, format, files, model, clicked, cache) ==
    IF Len(scan_template_folders(disk)) = 0
    THEN [events |-> <<Error("Nenhuma pasta de template encontrada", 0)>>,
          format |-> format, cache |-> cache]
    ELSE Layout(disk[template], load_layout_config(disk[template]),
                format, files, model, clicked, cache)

(***************************************************************************)
(* Spec: the application.  The disk holds up to two template folders, each *)
(* with a layout.json (missing, not JSON, or parsed) and template images   *)
(* (missing, unreadable or loadable).  The user changes brand, format,     *)
(* model text or uploads, or presses the generate button; each is a rerun. *)
(* (Streamlit drops the state of widgets a run did not reach; here the     *)
(* uploads and the model text are kept, which only adds reruns that a user *)
(* gets by entering them again.)                                           *)
(***************************************************************************)
MaxPhotos == 2

\* layout.json contents: legacy with two slots, legacy with a slot of width
\* zero, one without slots (fails validation), and one with two formats, the
\* second with its own template image
LegacyConfig ==
    JDict(<< <<"slots", JList(<<SlotOf(4, 4), SlotOf(4, 2)>>)>>, <<"text_pos", JDict(<<>>)>> >>)
ZeroWidthConfig ==
    JDict(<< <<"slots", JList(<<SlotOf(0, 4)>>)>> >>)
NoSlotsConfig ==
    JDict(<< <<"text_pos", JDict(<<>>)>> >>)
FormatsConfig ==
    JDict(<< <<"formats", JDict(<<
               <<"1080x1350", JDict(<< <<"slots", JList(<<SlotOf(4, 5)>>)>> >>)>>,
               <<"1080x1080", JDict(<< <<"slots", JList(<<SlotOf(4, 4), SlotOf(2, 2), SlotOf(2, 2)>>)>>,
                                      <<"template_file", JStr("1080x1080.png")>> >>)>> >>)>>,
             <<"font_size", FontSizes>> >>)

Parsed(c) == [st |-> "ok", json |-> c]

\* The template images of a folder: each missing, unreadable ("corrupt") or loadable
Files(portrait, square) ==
    [f \in {"1080x1350.png", "1080x1080.png"} |-> IF f = "1080x1350.png" THEN portrait ELSE square]

Folder(layout, files) == [layout |-> layout, files |-> files]

FolderStates ==
    { Folder([st |-> "missing", json |-> None], Files("ok", "ok")),
      Folder([st |-> "badjson", json |-> None], Files("ok", "ok")),
      Folder(Parsed(NoSlotsConfig), Files("ok", "ok")),
      Folder(Parsed(ZeroWidthConfig), Files("ok", "ok")),
      Folder(Parsed(LegacyConfig), Files("ok", "ok")),
      Folder(Parsed(LegacyConfig), Files("missing", "ok")),
      Folder(Parsed(LegacyConfig), Files("corrupt", "ok")),
      Folder(Parsed(FormatsConfig), Files("ok", "ok")),
      Folder(Parsed(FormatsConfig), Files("ok", "missing")),
      Folder(Parsed(FormatsConfig), Files("corrupt", "ok")) }

\* No folder, one folder in any state, or that folder and a second, sound one
Disks ==
    {<<>>} \cup [{"Template A"} -> FolderStates]
           \cup {[t \in {"Template A", "Template B"} |->
                    IF t = "Template A" THEN a ELSE Folder(Parsed(LegacyConfig), Files("ok", "ok"))] :
                 a \in FolderStates}

Uploads ==
    UNION {{[i \in 1..n |-> [name |-> i, ok |-> good[i]]] : good \in [1..n -> BOOLEAN]} :
              n \in 0..MaxPhotos}

Models == {"", "RS6"}

EmptyCache == [has |-> FALSE, generated_image |-> NoImage, model_name |-> "",
               selected_format |-> ""]

otherThanMain == <<validateVars, configVars, formatVars, textVars, fitVars, pipeVars>>

\* The widget values and what the run did, as the next state
Ran(template, files, model, clicked, run) ==
    /\ selected_template' = template
    /\ selected_format' = run.format
    /\ uploaded_files' = files
    /\ model_input' = model
    /\ generate_btn' = clicked
    /\ events' = run.events
    /\ session' = run.cache
    /\ UNCHANGED <<fs, otherThanMain>>

\* The rerun of main() with the widget values given
Rerun(template, format, files, model, clicked) ==
    Ran(template, files, model, clicked,
        main(fs, template, format, files, model, clicked, session))

\* The first template offered
First(templates) == IF Len(templates) = 0 THEN "" ELSE templates[1]

FirstRun(template, run) ==
    /\ selected_template = template
    /\ selected_format = run.format
    /\ events = run.events
    /\ session = run.cache

\* The first run: the first template and format, nothing uploaded
Init ==
    /\ fs \in Disks
    /\ FirstRun(First(scan_template_folders(fs)),
                main(fs, First(scan_template_folders(fs)), "", <<>>, "", FALSE, EmptyCache))
    /\ uploaded_files = <<>>
    /\ model_input = ""
    /\ generate_btn = FALSE
    /\ IdleValidate /\ IdleConfig /\ IdleFormat /\ IdleText /\ IdleFit /\ IdlePipe

\* The widgets of the form (and the generate button) exist once a run got past
\* loading the template image.
FormShown == \E i \in DOMAIN events : events[i] = Shown("preview")

\* The format selectbox exists once the layout loaded.
FormatsShown ==
    /\ selected_template \in DOMAIN fs
    /\ load_layout_config(fs[selected_template]).config.t # "null"

SelectTemplate ==
    \E t \in DOMAIN fs :
        /\ t # selected_template
        /\ Rerun(t, selected_format, uploaded_files, model_input, FALSE)

SelectFormat ==
    /\ FormatsShown
    /\ \E i \in DOMAIN get_available_formats(fs[selected_template].layout.json) :
         LET f == get_available_formats(fs[selected_template].layout.json)[i]
         IN  /\ f # selected_format
             /\ Rerun(selected_template, f, uploaded_files, model_input, FALSE)

UploadPhotos ==
    /\ FormShown
    /\ \E files \in Uploads :
         /\ files # uploaded_files
         /\ Rerun(selected_template, selected_format, files, model_input, FALSE)

EditModel ==
    /\ FormShown
    /\ \E m \in Models :
         /\ m # model_input
         /\ Rerun(selected_template, selected_format, uploaded_files, m, FALSE)

ClickGenerate ==
    /\ FormShown
    /\ Rerun(selected_template, selected_format, uploaded_files, model_input, TRUE)

Next == SelectTemplate \/ SelectFormat \/ UploadPhotos \/ EditModel \/ ClickGenerate

Spec == Init /\ [][Next]_vars

(***************************************************************************)
(* C3.  In every run, composite_images and render_text are reached only if *)
(* the layout file existed, parsed and passed validate_layout_config and   *)
(* the template image was loaded; if the layout is missing, unparsable or  *)
(* invalid, or the template image is missing or unloadable, the run ends   *)
(* with an error reported and no image is rendered.                        *)
(***************************************************************************)
LayoutSound ==
    /\ selected_template \in DOMAIN fs
    /\ fs[selected_template].layout.st = "ok"
    /\ validate_layout_config(fs[selected_template].layout.json)

\* The template image file of the run's format
TemplateFileOf(json, format) ==
    IF Has(json, "formats")
    THEN Get(Item(Item(json, "formats"), format), "template_file", JStr("1080x1350.png")).v
    ELSE Get(json, "template_file", JStr("1080x1350.png")).v

TemplateLoaded ==
    fs[selected_template].files[
        TemplateFileOf(fs[selected_template].layout.json, selected_format)] = "ok"

Did(kinds) == \E i \in DOMAIN events : events[i].e \in kinds

C3_RenderOnlyWithValidConfigAndTemplate ==
    /\ Did({"composite_images", "render_text"}) => (LayoutSound /\ TemplateLoaded)
    /\ (selected_template \in DOMAIN fs /\ ~(LayoutSound /\ TemplateLoaded)) =>
          /\ Len(events) > 0
          /\ events[Len(events)].e = "error"
          /\ ~Did({"image", "composite_images", "process_photo", "paste",
                   "render_text", "cache", "download_button"})

\* A run that rendered, and whose folder has a second template image missing
C3_Witness ==
    /\ Did({"composite_images"}) /\ Did({"render_text"})
    /\ LayoutSound /\ TemplateLoaded
    /\ \E f \in DOMAIN fs[selected_template].files : fs[selected_template].files[f] # "ok"

(***************************************************************************)
(* C4.  When generate is triggered and an uploaded photo fails to decode,  *)
(* the render is aborted: the run ends with an error naming the first      *)
(* failing file, nothing is composited, no output image is shown, and no   *)
(* photo after the failing one is opened; a run shows an output only if    *)
(* every uploaded photo decoded.                                           *)
(***************************************************************************)
Undecodable == {i \in DOMAIN uploaded_files : ~uploaded_files[i].ok}

FirstUndecodable == CHOOSE i \in Undecodable : \A j \in Undecodable : i <= j

C4_DecodeFailureAbortsRender ==
    /\ (generate_btn /\ Undecodable # {}) =>
          /\ events[Len(events)] =
                Error("Erro ao carregar imagem", uploaded_files[FirstUndecodable].name)
          /\ ~Did({"composite_images", "process_photo", "paste", "render_text", "cache"})
          /\ Shown("result") \notin {events[i] : i \in DOMAIN events}
          /\ \A i \in DOMAIN events :
                events[i].e = "open" => events[i].n < uploaded_files[FirstUndecodable].name
    /\ (\E i \in DOMAIN events : events[i] = Shown("result")) =>
          /\ generate_btn
          /\ Undecodable = {}
          /\ \A i \in DOMAIN uploaded_files :
                Opened(uploaded_files[i].name) \in {events[j] : j \in DOMAIN events}

\* Generate pressed with an unreadable first upload and a readable second one
C4_Witness ==
    /\ generate_btn
    /\ Len(uploaded_files) = 2
    /\ ~uploaded_files[1].ok /\ uploaded_files[2].ok
    /\ events[Len(events)] = Error("Erro ao carregar imagem", 1)

(***************************************************************************)
(* C10.  Every slot that reaches the photo fitter has w > 0 and h > 0: a   *)
(* layout with a slot of zero or negative width or height is rejected by   *)
(* validation before any render, so process_photo is never called with it. *)
(***************************************************************************)
C10_FitterSlotsHavePositiveSize ==
    \A i \in DOMAIN events :
        events[i].e = "process_photo" => (events[i].w > 0 /\ events[i].h > 0)

(***************************************************************************)
(* Field formatters.  A Python str is the sequence of its characters, each *)
(* a one-character string; "sup2" stands for U+00B2 (superscript two) and  *)
(* "ar3" for U+0663 (Arabic-Indic three).  str.isdigit() is true of both;  *)
(* int() reads decimal digits, ASCII or not, and raises ValueError on      *)
(* U+00B2.                                                                 *)
(***************************************************************************)
AsciiDigits == <<"0", "1", "2", "3", "4", "5", "6", "7", "8", "9">>

\* c.isdigit()
isdigit(c) == (\E i \in 1..10 : AsciiDigits[i] = c) \/ c \in {"sup2", "ar3"}

\* The decimal value int() gives character c, -1 when it has none
DecimalValue(c) ==
    IF c = "ar3" THEN 3
    ELSE IF \E i \in 1..10 : AsciiDigits[i] = c
    THEN (CHOOSE i \in 1..10 : AsciiDigits[i] = c) - 1
    ELSE -1

\* ''.join(c for c in raw if c.isdigit())
OnlyDigits(raw) == SelectSeq(raw, isdigit)

\* What a formatter leaves when int() raises
ValueError == <<"ValueError">>

RECURSIVE IntValue(_)
\* int(digits) for a str of decimal digits
IntValue(digits) ==
    IF Len(digits) = 0 THEN 0
    ELSE 10 * IntValue(SubSeq(digits, 1, Len(digits) - 1)) + DecimalValue(digits[Len(digits)])

\* int(digits) raises ValueError
IntRaises(digits) == \E i \in DOMAIN digits : DecimalValue(digits[i]) < 0

RECURSIVE Decimal(_)
\* str(n) for n >= 0
Decimal(n) ==
    IF n < 10 THEN <<AsciiDigits[n + 1]>>
    ELSE Decimal(n \div 10) \o <<AsciiDigits[(n % 10) + 1]>>

RECURSIVE Separated(_)
\* A str of decimal digits with a dot before every third digit from the right
Separated(digits) ==
    IF Len(digits) <= 3 THEN digits
    ELSE Separated(SubSeq(digits, 1, Len(digits) - 3))
         \o <<".">> \o SubSeq(digits, Len(digits) - 2, Len(digits))

\* f"{n:,}".replace(",", ".")
Thousands(n) == Separated(Decimal(n))

\* f"{n:02d}"
TwoDigits(n) == IF n < 10 THEN <<"0">> \o Decimal(n) ELSE Decimal(n)

format_price_value(raw) ==
    LET digits == OnlyDigits(raw)
    IN  IF Len(digits) = 0 THEN <<>>
        ELSE IF IntRaises(digits) THEN ValueError
        ELSE IF IntValue(digits) = 0 THEN <<"R", "$", " ", "0", ",", "0", "0">>
        ELSE <<"R", "$", " ">> \o Thousands(IntValue(digits) \div 100)
             \o <<",">> \o TwoDigits(IntValue(digits) % 100)

format_km_value(raw) ==
    LET digits == OnlyDigits(raw)
    IN  IF Len(digits) = 0 THEN <<>>
        ELSE IF IntRaises(digits) THEN ValueError
        ELSE Thousands(IntValue(digits))

\* format_year_value without the cut to 8 digits
format_year_value_uncut(raw) ==
    LET digits == OnlyDigits(raw)
    IN  IF Len(digits) = 0 THEN <<>>
        ELSE IF Len(digits) <= 4 THEN digits
        ELSE SubSeq(digits, 1, 4) \o <<"/">> \o SubSeq(digits, 5, Len(digits))

format_year_value(raw) ==
    LET digits == OnlyDigits(raw)
        cut == SubSeq(digits, 1, Min(Len(digits), 8))
    IN  IF Len(digits) = 0 THEN <<>>
        ELSE IF Len(cut) <= 4 THEN cut
        ELSE SubSeq(cut, 1, 4) \o <<"/">> \o SubSeq(cut, 5, Len(cut))

(***************************************************************************)
(* SpecFormat: the user types a text into the price, KM or year field;     *)
(* Streamlit stores it under the widget's key and runs the field's         *)
(* on_change callback.  A callback whose formatter raises stops at its     *)
(* first statement.                                                        *)
(***************************************************************************)
MaxLen == 5

Chars == {"0", "1", "9", ".", "sup2"}

\* Longer texts: the ones the formatters' docstrings and the README speak of,
\* already formatted values, more than eight digits, a non-ASCII decimal digit
Examples ==
    { <<"8", "5", "0", "0", "0", "0", "0", "0">>,
      <<"R", "$", " ", "8", "5", "0", ".", "0", "0", "0", ",", "0", "0">>,
      <<"1", "2", "3", "4", "5", "6", "7">>,
      <<"1", "2", ".", "5", "0", "0", " ", "k", "m">>,
      <<"2", "0", "2", "3", "2", "0", "2", "4">>,
      <<"2", "0", "2", "3", "/", "2", "0", "2", "4">>,
      <<"2", "0", "2", "3", "2", "0", "2", "4", "5">>,
      <<"2", "0", "2", "3", "-", "2", "0", "2", "4", "/", "2", "5">>,
      <<"ar3", "4", "5">> }

Texts == UNION {[1..k -> Chars] : k \in 0..MaxLen} \cup Examples

\* A key the session state does not hold yet
Unset == <<"unset">>

InitFormat ==
    /\ typed \in Texts
    /\ state = [price_input |-> <<>>, price_display |-> Unset,
                km_input |-> <<>>, km_display |-> Unset,
                year_input |-> <<>>, year_display |-> Unset]
    /\ last = [field |-> "none", raised |-> FALSE]
    /\ IdleValidate /\ IdleConfig /\ IdleMain /\ IdleText /\ IdleFit /\ IdlePipe

otherThanFormat == <<validateVars, configVars, mainVars, textVars, fitVars, pipeVars>>

\* _on_price_change with session_state["price_input"] = raw
on_price_change(raw) ==
    IF format_price_value(raw) = ValueError
    THEN /\ state' = [state EXCEPT !.price_input = raw]
         /\ last' = [field |-> "price", raised |-> TRUE]
    ELSE /\ state' = [state EXCEPT !.price_display = format_price_value(raw),
                                   !.price_input = format_price_value(raw)]
         /\ last' = [field |-> "price", raised |-> FALSE]

\* _on_km_change with session_state["km_input"] = raw
on_km_change(raw) ==
    IF format_km_value(raw) = ValueError
    THEN /\ state' = [state EXCEPT !.km_input = raw]
         /\ last' = [field |-> "km", raised |-> TRUE]
    ELSE /\ state' = [state EXCEPT !.km_display = format_km_value(raw),
                                   !.km_input = format_km_value(raw)]
         /\ last' = [field |-> "km", raised |-> FALSE]

\* _on_year_change with session_state["year_input"] = raw
on_year_change(raw) ==
    /\ state' = [state EXCEPT !.year_display = format_year_value(raw),
                              !.year_input = format_year_value(raw)]
    /\ last' = [field |-> "year", raised |-> FALSE]

EditPrice ==
    /\ typed # state.price_input
    /\ on_price_change(typed)
    /\ UNCHANGED <<typed, otherThanFormat>>

EditKm ==
    /\ typed # state.km_input
    /\ on_km_change(typed)
    /\ UNCHANGED <<typed, otherThanFormat>>

EditYear ==
    /\ typed # state.year_input
    /\ on_year_change(typed)
    /\ UNCHANGED <<typed, otherThanFormat>>

NextFormat == EditPrice \/ EditKm \/ EditYear

SpecFormat == InitFormat /\ [][NextFormat]_vars

(***************************************************************************)
(* C5.  The three formatters are idempotent: for every input x with at     *)
(* least one digit, format(format(x)) = format(x); so after an on-change   *)
(* callback has run, the field's stored input equals its display value     *)
(* and is a fixed point of the field's formatter.                          *)
(***************************************************************************)
HasDigit(raw) == \E i \in DOMAIN raw : \E d \in 1..10 : raw[i] = AsciiDigits[d]

C5_CallbackLeavesFixedPoint ==
    HasDigit(typed) =>
        /\ last.field = "price" =>
              /\ ~last.raised
              /\ state.price_input = state.price_display
              /\ format_price_value(state.price_display) = state.price_display
        /\ last.field = "km" =>
              /\ ~last.raised
              /\ state.km_input = state.km_display
              /\ format_km_value(state.km_display) = state.km_display
        /\ last.field = "year" =>
              /\ ~last.raised
              /\ state.year_input = state.year_display
              /\ format_year_value(state.year_display) = state.year_display

(***************************************************************************)
(* C6.  format_price_value: with d the digits of the input and n their     *)
(* integer value, the result is empty when d is empty and otherwise "R$ "  *)
(* followed by floor(n/100) with a dot between groups of three digits, a   *)
(* comma, and n mod 100 on two digits; "85000000" gives "R$ 850.000,00"    *)
(* and "0" gives "R$ 0,00".                                                *)
(***************************************************************************)
\* n on exactly three digits, n < 1000
ThreeDigits(n) ==
    <<AsciiDigits[(n \div 100) + 1], AsciiDigits[((n \div 10) % 10) + 1], AsciiDigits[(n % 10) + 1]>>

RECURSIVE DotGrouped(_)
\* n with a dot between every group of three digits
DotGrouped(n) ==
    IF n < 1000 THEN Decimal(n)
    ELSE DotGrouped(n \div 1000) \o <<".">> \o ThreeDigits(n % 1000)

PriceOf(raw) ==
    IF Len(OnlyDigits(raw)) = 0 THEN <<>>
    ELSE <<"R", "$", " ">> \o DotGrouped(IntValue(OnlyDigits(raw)) \div 100) \o <<",">>
         \o <<AsciiDigits[((IntValue(OnlyDigits(raw)) % 100) \div 10) + 1],
              AsciiDigits[(IntValue(OnlyDigits(raw)) % 10) + 1]>>

C6_PriceIsGroupedCents ==
    last.field = "price" =>
        /\ ~last.raised
        /\ state.price_display = PriceOf(typed)
        /\ typed = <<"8", "5", "0", "0", "0", "0", "0", "0">> =>
              state.price_display
                 = <<"R", "$", " ", "8", "5", "0", ".", "0", "0", "0", ",", "0", "0">>
        /\ typed = <<"0">> => state.price_display = <<"R", "$", " ", "0", ",", "0", "0">>

(***************************************************************************)
(* C7.  format_year_value: with d the digits of the input cut to the first *)
(* 8, the result is empty when d is empty, d itself when d has at most 4   *)
(* digits, and otherwise the first 4 digits, a slash and the rest; "2023"  *)
(* gives "2023", "20232024" gives "2023/2024", and the result never has    *)
(* more than 8 digits.                                                     *)
(***************************************************************************)
FirstEight(digits) == [i \in 1..Min(8, Len(digits)) |-> digits[i]]

YearOf(raw) ==
    LET d == FirstEight(OnlyDigits(raw))
    IN  IF Len(d) = 0 THEN <<>>
        ELSE IF Len(d) <= 4 THEN d
        ELSE [i \in 1..(Len(d) + 1) |->
                 IF i <= 4 THEN d[i] ELSE IF i = 5 THEN "/" ELSE d[i - 1]]

C7_YearIsFirstFourSlashRest ==
    last.field = "year" =>
        /\ ~last.raised
        /\ state.year_display = YearOf(typed)
        /\ typed = <<"2", "0", "2", "3">> => state.year_display = <<"2", "0", "2", "3">>
        /\ typed = <<"2", "0", "2", "3", "2", "0", "2", "4">> =>
              state.year_display = <<"2", "0", "2", "3", "/", "2", "0", "2", "4">>
        /\ Len(OnlyDigits(state.year_display)) <= 8

\* The year callback ran on a text of more than eight digits
C7_Witness ==
    /\ last.field = "year"
    /\ Len(OnlyDigits(typed)) > 8
    /\ state.year_display = <<"2", "0", "2", "3", "/", "2", "0", "2", "4">>

(***************************************************************************)
(* render_text.  The texts are sequences of characters; a font is its      *)
(* size; draw.textlength is the sum of the characters' advances times the  *)
(* size.  The image is the sequence of the draw calls made on it.          *)
(***************************************************************************)
Advance(c) ==
    IF c \in {"i", ".", " "} THEN 1 ELSE IF c \in {"m", "K", "F"} THEN 3 ELSE 2

RECURSIVE Advances(_)
Advances(text) == IF Len(text) = 0 THEN 0 ELSE Advance(text[1]) + Advances(Tail(text))

\* draw.textlength(text, font=font)
textlength(text, font) == font * Advances(text)

Ellipsis == <<".", ".", ".">>

RECURSIVE Truncate(_, _, _)
\* while truncated and textlength(truncated + ellipsis) > max_width: truncated = truncated[:-1]
Truncate(truncated, font, max_width) ==
    IF Len(truncated) > 0 /\ textlength(truncated \o Ellipsis, font) > max_width
    THEN Truncate(SubSeq(truncated, 1, Len(truncated) - 1), font, max_width)
    ELSE truncated

RECURSIVE TruncateBare(_, _, _)
\* The loop measuring the truncated text without the ellipsis it will carry
TruncateBare(truncated, font, max_width) ==
    IF Len(truncated) > 0 /\ textlength(truncated, font) > max_width
    THEN TruncateBare(SubSeq(truncated, 1, Len(truncated) - 1), font, max_width)
    ELSE truncated

\* fit_text_to_width with that loop
fit_text_to_width_bare(text, font, max_width) ==
    IF max_width <= 0 THEN text
    ELSE IF textlength(text, font) <= max_width THEN text
    ELSE IF textlength(Ellipsis, font) > max_width THEN <<>>
    ELSE IF Len(TruncateBare(text, font, max_width)) > 0
         THEN TruncateBare(text, font, max_width) \o Ellipsis
         ELSE <<>>

fit_text_to_width(text, font, max_width) ==
    IF max_width <= 0 THEN text
    ELSE IF textlength(text, font) <= max_width THEN text
    ELSE IF textlength(Ellipsis, font) > max_width THEN <<>>
    ELSE IF Len(Truncate(text, font, max_width)) > 0
         THEN Truncate(text, font, max_width) \o Ellipsis
         ELSE <<>>

\* draw.rounded_rectangle(...), draw.rectangle(...), draw.text(...)
RoundedRectangle(rect, radius, fill) ==
    [op |-> "rounded_rectangle", rect |-> rect, radius |-> radius, fill |-> fill]
Rectangle(rect) == [op |-> "rectangle", rect |-> rect, fill |-> "#1a1a1a"]
Text(key, x, y, text, font, fill, anchor) ==
    [op |-> "text", key |-> key, x |-> x, y |-> y, text |-> text, font |-> font,
     fill |-> fill, anchor |-> anchor]

\* key in text_align_right
AlignedRight(format_config, key) ==
    LET text_align_right == Get(format_config, "text_align_right", JList(<<>>)).v
    IN  \E i \in DOMAIN text_align_right : text_align_right[i] = JStr(key)

\* if area: for the value of format_config.get(area_key)
AreaGiven(format_config, area_key) ==
    /\ Has(format_config, area_key)
    /\ Item(format_config, area_key).t = "list"
    /\ Len(Item(format_config, area_key).v) > 0

\* max_width as draw_text_field computes it for a field anchored at x
max_width_of(format_config, key, x) ==
    IF ~AlignedRight(format_config, key)
    THEN IF AreaGiven(format_config, "text_clear_area_left")
         THEN Item(format_config, "text_clear_area_left").v[3].v - x
         ELSE 0
    ELSE IF AreaGiven(format_config, "text_clear_area_right")
         THEN x - Item(format_config, "text_clear_area_right").v[1].v
         ELSE 0

\* The two draw.text calls of draw_text_field
DrawBoth(format_config, key, x, y, display_text, font) ==
    LET shadow_offset == Get(format_config, "text_shadow_offset", JList(<<JInt(2), JInt(2)>>)).v
        shadow_color == Get(format_config, "text_shadow_color",
                            JList(<<JInt(0), JInt(0), JInt(0), JInt(140)>>))
        font_color == Get(format_config, "font_color", JStr("#FFFFFF"))
        anchor == IF AlignedRight(format_config, key) THEN "rt" ELSE "lt"
    IN  << Text(key, x + shadow_offset[1].v, y + shadow_offset[2].v, display_text, font,
                shadow_color, anchor),
           Text(key, x, y, display_text, font, font_color, anchor) >>

draw_text_field(format_config, key, text, font) ==
    LET text_pos == Get(format_config, "text_pos", JDict(<<>>))
    IN  IF Len(text) > 0 /\ Has(text_pos, key)
        THEN DrawBoth(format_config, key, Item(text_pos, key).v[1].v, Item(text_pos, key).v[2].v,
                      IF max_width_of(format_config, key, Item(text_pos, key).v[1].v) # 0
                      THEN fit_text_to_width(text, font,
                              max_width_of(format_config, key, Item(text_pos, key).v[1].v))
                      ELSE text,
                      font)
        ELSE <<>>

\* for panel in format_config.get("text_panels", []): ... draw.rounded_rectangle
PanelOps(format_config) ==
    LET panels == Get(format_config, "text_panels", JList(<<>>)).v
        fill(panel) == Get(panel, "fill", JList(<<JInt(16), JInt(18), JInt(24), JInt(150)>>))
        drawn_panels == SelectSeq(panels, LAMBDA panel : Len(fill(panel).v) = 4)
    IN  [i \in DOMAIN drawn_panels |->
            RoundedRectangle(Get(drawn_panels[i], "rect",
                                 JList(<<JInt(0), JInt(0), JInt(0), JInt(0)>>)),
                             Get(drawn_panels[i], "radius", JInt(28)),
                             fill(drawn_panels[i]))]

\* if format_config.get("clear_text_areas", True): for area_key in [...]: draw.rectangle
ClearOps(format_config) ==
    IF Get(format_config, "clear_text_areas", JBool(TRUE)).v
    THEN (IF AreaGiven(format_config, "text_clear_area_left")
          THEN <<Rectangle(Item(format_config, "text_clear_area_left"))>> ELSE <<>>)
         \o (IF AreaGiven(format_config, "text_clear_area_right")
             THEN <<Rectangle(Item(format_config, "text_clear_area_right"))>> ELSE <<>>)
    ELSE <<>>

\* km.lower().startswith("km")
StartsWithKm(km) == Len(km) >= 2 /\ km[1] \in {"k", "K"} /\ km[2] \in {"m", "M"}

\* f"Km {km}" if km and not km.lower().startswith("km") else km
km_text(km) == IF Len(km) > 0 /\ ~StartsWithKm(km) THEN <<"K", "m", " ">> \o km ELSE km

\* f"Final de placa {plate}" if plate else ""
plate_text(plate) ==
    IF Len(plate) > 0
    THEN <<"F", "i", "n", "a", "l", " ", "d", "e", " ", "p", "l", "a", "c", "a", " ">> \o plate
    ELSE <<>>

\* The fonts render_text loads: [modelo, preco, default]
FontsOf(format_config) ==
    LET font_sizes == Get(format_config, "font_size", JDict(<<>>))
    IN  [modelo |-> Get(font_sizes, "modelo", JInt(42)).v,
         preco |-> Get(font_sizes, "preco", JInt(28)).v,
         default |-> Get(font_sizes, "default", JInt(22)).v]

\* The field texts in the order render_text draws them, each with its font
FieldsOf(format_config, texts) ==
    << <<"modelo", texts.model, FontsOf(format_config).modelo>>,
       <<"preco", texts.price, FontsOf(format_config).preco>>,
       <<"ano", texts.year, FontsOf(format_config).default>>,
       <<"km", km_text(texts.km), FontsOf(format_config).default>>,
       <<"placa", plate_text(texts.plate), FontsOf(format_config).default>>,
       <<"vendedor", texts.vendedor, FontsOf(format_config).default>>,
       <<"telefone", texts.telefone, FontsOf(format_config).default>>,
       <<"unidade", texts.unidade, FontsOf(format_config).default>>,
       <<"endereco", texts.endereco, FontsOf(format_config).default>> >>

RECURSIVE FieldOps(_, _)
FieldOps(format_config, fields) ==
    IF Len(fields) = 0 THEN <<>>
    ELSE draw_text_field(format_config, fields[1][1], fields[1][2], fields[1][3])
         \o FieldOps(format_config, Tail(fields))

\* render_text clearing the areas after the fields are drawn
render_text_clearing_last(format_config, texts) ==
    PanelOps(format_config)
    \o FieldOps(format_config, FieldsOf(format_config, texts))
    \o ClearOps(format_config)

\* The draw calls of render_text(image, format_config, template_path, model, ...)
render_text(format_config, texts) ==
    PanelOps(format_config) \o ClearOps(format_config)
    \o FieldOps(format_config, FieldsOf(format_config, texts))

(***************************************************************************)
(* SpecText: one call of render_text on a format configuration and the     *)
(* texts of the form.                                                      *)
(***************************************************************************)
MaxWidth == 8
MaxText == 3

Words == UNION {[1..k -> {"i", "m"}] : k \in 0..MaxText}

Pos(x, y) == JList(<<JInt(x), JInt(y)>>)
Area(x1, x2) == JList(<<JInt(x1), JInt(0), JInt(x2), JInt(9)>>)

\* The left fields are anchored at x, the right ones at RightAnchor
RightAnchor == MaxWidth + 2

TextPos(x) ==
    JDict(<< <<"endereco", Pos(RightAnchor, 3)>>, <<"unidade", Pos(RightAnchor, 2)>>,
             <<"modelo", Pos(x, 0)>>, <<"preco", Pos(x, 1)>>, <<"km", Pos(x, 2)>>,
             <<"placa", Pos(x, 3)>>, <<"ano", Pos(x, 4)>>, <<"vendedor", Pos(RightAnchor, 0)>>,
             <<"telefone", Pos(RightAnchor, 1)>> >>)

\* Panels and the clear_text_areas switch: none given; two panels, one with a
\* fill of three values; clearing switched off
Decorations ==
    { <<Absent, Absent>>,
      <<JList(<< JDict(<< <<"rect", Area(0, MaxWidth)>> >>),
                 JDict(<< <<"rect", Area(0, 1)>>,
                          <<"fill", JList(<<JInt(0), JInt(0), JInt(0)>>)>> >>) >>),
        Absent>>,
      <<Absent, JBool(FALSE)>> }

\* text_align_right and the right clear area: nothing aligned right; the seller
\* fields aligned right without an area, with one that starts left of their
\* anchor, with one that starts right of it
RightSides ==
    { <<Absent, Absent>>,
      <<JList(<<JStr("vendedor"), JStr("telefone")>>), Absent>>,
      <<JList(<<JStr("vendedor"), JStr("telefone")>>), Area(RightAnchor - 6, RightAnchor + 6)>>,
      <<JList(<<JStr("vendedor"), JStr("telefone")>>), Area(RightAnchor + 2, RightAnchor + 6)>> }

TextConfigs ==
    { MkDict(<< <<"text_pos", TextPos(x)>>,
                <<"text_clear_area_left", left>>,
                <<"text_clear_area_right", side[2]>>,
                <<"text_align_right", side[1]>>,
                <<"text_panels", decor[1]>>,
                <<"clear_text_areas", decor[2]>>,
                <<"font_size", sizes>> >>) :
        x \in {0, 2},
        left \in {Absent} \cup {Area(0, x2) : x2 \in 0..MaxWidth},
        side \in RightSides,
        decor \in Decorations,
        sizes \in {Absent, JDict(<< <<"modelo", JInt(2)>>, <<"preco", JInt(1)>>,
                                    <<"default", JInt(1)>> >>)} }

FormTexts ==
    { [model |-> model, price |-> <<"m", "i">>, year |-> kp[3], km |-> kp[1], plate |-> kp[2],
       vendedor |-> <<"m", "i", "m">>, telefone |-> <<"i", "i">>, unidade |-> kp[3],
       endereco |-> kp[3]] :
        model \in Words,
        kp \in {<<<<>>, <<>>, <<>>>>, <<<<"i">>, <<"i">>, <<>>>>,
                <<<<"k", "m", "i">>, <<>>, <<"i">>>>, <<<<"i">>, <<"i">>, <<"m", "i">>>>} }

InitText ==
    /\ tin \in {[format_config |-> c, texts |-> t] : c \in TextConfigs, t \in FormTexts}
    /\ drawn = <<>>
    /\ IdleValidate /\ IdleConfig /\ IdleMain /\ IdleFormat /\ IdleFit /\ IdlePipe

\* result = render_text(...): the image goes from untouched to drawn
RenderTextCall ==
    /\ drawn = <<>>
    /\ drawn' = <<[op |-> "copy"]>> \o render_text(tin.format_config, tin.texts)
    /\ UNCHANGED <<tin, validateVars, configVars, mainVars, formatVars, fitVars, pipeVars>>

NextText == RenderTextCall

SpecText == InitText /\ [][NextText]_vars

(***************************************************************************)
(* C8.  For any string and any width bound W computed for a field (the     *)
(* distance between the field's anchor x and the boundary of its clear     *)
(* area), the string drawn has measured width at most W, or is empty when  *)
(* even the ellipsis does not fit; the drawn text never overflows the      *)
(* bound.                                                                  *)
(***************************************************************************)
TextOps == {i \in DOMAIN drawn : drawn[i].op = "text"}

\* The field's clear area is configured: a width bound is computed for it
Bounded(key) ==
    IF AlignedRight(tin.format_config, key)
    THEN AreaGiven(tin.format_config, "text_clear_area_right")
    ELSE AreaGiven(tin.format_config, "text_clear_area_left")

\* The field's anchor x, and its distance to the boundary of the clear area
AnchorOf(key) == Item(Item(tin.format_config, "text_pos"), key).v[1].v

BoundOf(key) ==
    IF AlignedRight(tin.format_config, key)
    THEN AnchorOf(key) - Item(tin.format_config, "text_clear_area_right").v[1].v
    ELSE Item(tin.format_config, "text_clear_area_left").v[3].v - AnchorOf(key)

\* The text handed to draw_text_field for the field
GivenText(key) ==
    LET fields == FieldsOf(tin.format_config, tin.texts)
    IN  fields[CHOOSE i \in DOMAIN fields : fields[i][1] = key][2]

Measured(d) == d.font * Advances(d.text)

C8_DrawnTextWithinBound ==
    \A i \in TextOps :
        Bounded(drawn[i].key) =>
            Measured(drawn[i]) <= BoundOf(drawn[i].key)

(***************************************************************************)
(* C8 as amended.  When the bound W is positive, the string drawn is the   *)
(* text itself, or a proper prefix of it followed by "...", or empty, and  *)
(* its measured width is at most W; it is empty only if the text does not  *)
(* fit.  When W is zero or negative (the anchor lies on or beyond the      *)
(* boundary of the clear area) the text is drawn in full.  The shadow      *)
(* carries the same string.                                                *)
(***************************************************************************)
IsCut(shown, text) ==
    \E k \in 1..(Len(text) - 1) :
        shown = [j \in 1..(k + 3) |-> IF j <= k THEN text[j] ELSE "."]

C8_DrawnTextWithinPositiveBound ==
    \A i \in TextOps :
        LET d == drawn[i]
            given == GivenText(d.key)
            bound == BoundOf(d.key)
        IN  /\ (Bounded(d.key) /\ bound > 0) =>
                  /\ Measured(d) <= bound
                  /\ d.text = given \/ d.text = <<>> \/ IsCut(d.text, given)
                  /\ d.text # given => d.font * Advances(given) > bound
            /\ (Bounded(d.key) /\ bound <= 0) => d.text = given
            /\ d.fill.t = "str" => (i > 1 /\ drawn[i - 1].op = "text"
                                          /\ drawn[i - 1].text = d.text)

\* A text cut to a prefix and "...", and in the same image a right-aligned
\* text drawn in full beyond its clear area
C8_Witness ==
    /\ \E i \in TextOps :
          /\ Bounded(drawn[i].key) /\ BoundOf(drawn[i].key) > 0
          /\ IsCut(drawn[i].text, GivenText(drawn[i].key))
    /\ \E i \in TextOps :
          /\ Bounded(drawn[i].key) /\ BoundOf(drawn[i].key) < 0
          /\ drawn[i].text = GivenText(drawn[i].key)

(***************************************************************************)
(* C13.  render_text draws in a fixed order: first the text panels (a      *)
(* panel whose fill does not have exactly 4 values is skipped), then the   *)
(* left and the right clear-area rectangle (only when clear_text_areas is  *)
(* enabled, the default), then the fields in the order modelo, preco, ano, *)
(* km, placa, vendedor, telefone, unidade, endereco, each as its shadow    *)
(* and then its text; no panel or clear area is drawn after any text.      *)
(***************************************************************************)
FieldOrder ==
    <<"modelo", "preco", "ano", "km", "placa", "vendedor", "telefone", "unidade", "endereco">>

\* The text of the form that goes into the field
FormText(key) ==
    CASE key = "modelo" -> tin.texts.model
      [] key = "preco" -> tin.texts.price
      [] key = "ano" -> tin.texts.year
      [] key = "km" -> tin.texts.km
      [] key = "placa" -> tin.texts.plate
      [] key = "vendedor" -> tin.texts.vendedor
      [] key = "telefone" -> tin.texts.telefone
      [] key = "unidade" -> tin.texts.unidade
      [] key = "endereco" -> tin.texts.endereco

\* The fields that are drawn: a text was entered and the layout places the field
DrawnFields ==
    SelectSeq(FieldOrder, LAMBDA key : /\ Len(FormText(key)) > 0
                                       /\ Has(Item(tin.format_config, "text_pos"), key))

PanelsWithFourValues ==
    SelectSeq(Get(tin.format_config, "text_panels", JList(<<>>)).v,
              LAMBDA panel : ~Has(panel, "fill") \/ Len(Item(panel, "fill").v) = 4)

ClearAreas ==
    IF Has(tin.format_config, "clear_text_areas")
       /\ ~Item(tin.format_config, "clear_text_areas").v
    THEN <<>>
    ELSE SelectSeq(<<"text_clear_area_left", "text_clear_area_right">>,
                   LAMBDA area_key : Has(tin.format_config, area_key))

OpsOf(kind) == SelectSeq(drawn, LAMBDA d : d.op = kind)

Stage(d) ==
    CASE d.op = "copy" -> 0
      [] d.op = "rounded_rectangle" -> 1
      [] d.op = "rectangle" -> 2
      [] d.op = "text" -> 3

SlotsOnDisk ==
    LET json == fs[selected_template].layout.json
    IN  IF Has(json, "formats")
        THEN Item(Item(Item(json, "formats"), selected_format), "slots").v
        ELSE Item(json, "slots").v

EventsOf(kind) == SelectSeq(events, LAMBDA ev : ev.e = kind)

C12_PhotosFillSlotsCyclically ==
    generate_btn =>
        /\ Len(uploaded_files) = 0 =>
              /\ events[Len(events)] = Error("Por favor, faca upload de pelo menos uma foto", 0)
              /\ ~Did({"open", "composite_images", "process_photo", "paste", "render_text"})
        /\ (Len(uploaded_files) > 0 /\ Undecodable = {}) =>
              LET calls == EventsOf("process_photo")
                  n == Len(uploaded_files)
              IN  /\ EventsOf("composite_images") = <<Composite(Len(SlotsOnDisk))>>
                  /\ Len(calls) <= Len(SlotsOnDisk)
                  /\ Len(calls) < Len(SlotsOnDisk) => Did({"exception"})
                  /\ \A i \in DOMAIN calls :
                        /\ calls[i].n = uploaded_files[((i - 1) % n) + 1].name
                        /\ calls[i].w = Item(SlotsOnDisk[i], "w").v
                        /\ calls[i].h = Item(SlotsOnDisk[i], "h").v

\* Two photos for three slots, all three processed
C12_Witness ==
    /\ generate_btn
    /\ Len(uploaded_files) = 2 /\ Undecodable = {}
    /\ Len(EventsOf("process_photo")) = 3
    /\ EventsOf("process_photo")[3].n = uploaded_files[1].name

(***************************************************************************)
(* C14.  The cached download state (generated_image, model_name,           *)
(* selected_format) is written only at the end of a successful render, all *)
(* three together: a run that does not show a result leaves the three      *)
(* unchanged, and a run that shows one leaves the image it rendered, the   *)
(* model name and the format it was rendered with.                         *)
(***************************************************************************)
ResultShown(evs) == \E i \in DOMAIN evs : evs[i] = Shown("result")

\* The card a render of the slots on disk leaves: the template of the format,
\* one photo pasted per slot, the text drawn
IsRenderOf(image, slots, template_file) ==
    /\ image.kind = "card"
    /\ image.text
    /\ image.template = [kind |-> "template", file |-> template_file]
    /\ Len(image.pasted) = Len(slots)
    /\ \A i \in DOMAIN slots :
          /\ image.pasted[i].image.w = Item(slots[i], "w").v
          /\ image.pasted[i].image.h = Item(slots[i], "h").v

C14_CacheWrittenOnlyBySuccessfulRender ==
    [][ /\ ~ResultShown(events') => session' = session
        /\ ResultShown(events') =>
              /\ generate_btn'
              /\ session'.has
              /\ session'.selected_format = selected_format'
              /\ session'.model_name = (IF model_input' = "" THEN "card" ELSE model_input')
              /\ LET json == fs[selected_template'].layout.json
                     slots == IF Has(json, "formats")
                              THEN Item(Item(Item(json, "formats"), selected_format'), "slots").v
                              ELSE Item(json, "slots").v
                 IN  IsRenderOf(session'.generated_image, slots,
                                TemplateFileOf(json, selected_format')) ]_vars

\* A failed generate attempt in a session that holds the card of another format
C14_Witness ==
    /\ generate_btn
    /\ ~ResultShown(events)
    /\ session.has
    /\ session.selected_format # selected_format
    /\ session.model_name = "RS6"

(***************************************************************************)
(* The pipeline on image objects.  A PIL Image is an object: paste, the    *)
(* ImageDraw calls and thumbnail write into the object they are called on, *)
(* copy() builds a new one.  images holds the objects of a run, an object   *)
(* is known by its index, and its value is the file it was opened from,    *)
(* its size, and the writes made into it since, in order.                  *)
(***************************************************************************)
\* Image.open(f).convert("RGBA"): a new object
ImageOpened(name, w, h) == [name |-> name, w |-> w, h |-> h, transposed |-> FALSE, marks |-> <<>>]

\* A copy() that hands back the object it was called on
copy_shared(objs, image) == [images |-> objs, r |-> image]

\* image.copy(): a new object with the same pixels
copy(objs, image) == [images |-> Append(objs, objs[image]), r |-> Len(objs) + 1]

Abs(a) == IF a < 0 THEN -a ELSE a

\* round_aspect of Image.thumbnail for x = y * aspect: of the floor and the
\* ceiling the one whose ratio to y is nearer the aspect w / h, at least 1
ThumbWidth(w, h, y) ==
    LET lo == (y * w) \div h
        hi == (y * w + h - 1) \div h
    IN  Max(IF Abs(w * y - lo * h) <= Abs(w * y - hi * h) THEN lo ELSE hi, 1)

\* round_aspect for y = x / aspect: the key is |aspect - x / n|, 0 for n = 0
ThumbHeight(w, h, x) ==
    LET lo == (x * h) \div w
        hi == (x * h + w - 1) \div w
    IN  IF lo = 0
        THEN 1
        ELSE Max(IF Abs(w * lo - x * h) * hi <= Abs(w * hi - x * h) * lo THEN lo ELSE hi, 1)

\* The size Image.thumbnail(size) leaves: unchanged if the image fits, else the
\* largest size of the same aspect within it
ThumbSize(w, h, size) ==
    IF size[1] >= w /\ size[2] >= h
    THEN <<w, h>>
    ELSE IF size[1] * h >= w * size[2]
    THEN <<ThumbWidth(w, h, size[2]), size[2]>>
    ELSE <<size[1], ThumbHeight(w, h, size[1])>>

\* target.thumbnail(size): resizes the object in place
thumbnail(objs, target, size) ==
    IF ThumbSize(objs[target].w, objs[target].h, size) = <<objs[target].w, objs[target].h>>
    THEN objs
    ELSE [objs EXCEPT ![target] =
            [@ EXCEPT !.w = ThumbSize(objs[target].w, objs[target].h, size)[1],
                      !.h = ThumbSize(objs[target].w, objs[target].h, size)[2],
                      !.marks = Append(@, [op |-> "resize"])]]

\* target.paste(processed, (x, y), processed)
paste(objs, target, processed, x, y) ==
    [objs EXCEPT ![target].marks =
        Append(@, [op |-> "paste", image |-> processed, x |-> x, y |-> y])]

\* draw = ImageDraw.Draw(target) and the draw calls made through it
Draw(objs, target, ops) == [objs EXCEPT ![target].marks = @ \o ops]

\* The preview of main: preview_template = template_image.copy();
\* preview_template.thumbnail((400, 600))
Thumbnailed(c) == [images |-> thumbnail(c.images, c.r, <<400, 600>>), r |-> c.r]

RECURSIVE PasteLoop(_, _, _, _)
\* One turn of the loop of composite_images on the object result
PasteTurn(objs, result, processed, slot, photos, slots) ==
    IF processed.raised
    THEN [images |-> objs, r |-> 0]
    ELSE PasteLoop(paste(objs, result, processed, Item(slot, "x").v, Item(slot, "y").v),
                   result, photos, slots)

\* for photo, slot in zip(photos, slots); r is 0 when process_photo raised.
\* The objects process_photo builds on the way are dropped when it returns;
\* the processed photo is kept as the value pasted.
PasteLoop(objs, result, photos, slots) ==
    IF Len(photos) = 0 \/ Len(slots) = 0
    THEN [images |-> objs, r |-> result]
    ELSE PasteTurn(objs, result, process_photo(objs[photos[1]], slots[1]), slots[1],
                   Tail(photos), Tail(slots))

\* composite_images from result = template.copy() on
Composited(c, photos, slots) == PasteLoop(c.images, c.r, photos, slots)

\* render_text from result = image.copy() on
TextDrawn(c, ops) == [images |-> Draw(c.images, c.r, ops), r |-> c.r]

(***************************************************************************)
(* SpecPipeline: a run of main holding a loaded template, a format         *)
(* configuration and two decoded photos, and the three stages called on    *)
(* them in any order.                                                      *)
(***************************************************************************)
MaxImages == 6

TemplateSizes == {<<1080, 1350>>, <<300, 300>>}

PipelineSlots == {<<SlotOf(4, 4)>>, <<SlotOf(4, 4), SlotOf(4, 2)>>, <<SlotOf(0, 4)>>}

PipelineConfigs ==
    { MkDict(<< <<"slots", JList(slots)>>,
                <<"text_pos", TextPos(0)>>,
                <<"text_clear_area_left", left>> >>) :
        slots \in PipelineSlots, left \in {Area(0, 4)} }

PipelineTexts == {t \in FormTexts : t.model = <<"m">> /\ t.km \in {<<>>, <<"k", "m", "i">>}}

InitPipeline ==
    /\ \E size \in TemplateSizes, c \in PipelineConfigs :
          /\ images = << ImageOpened("1080x1350.png", size[1], size[2]),
                         ImageOpened("a.jpg", 4, 3), ImageOpened("b.jpg", 3, 6) >>
          /\ pipe = [template_image |-> 1,
                     format_config |-> c,
                     at_load |-> [template_image |-> ImageOpened("1080x1350.png", size[1], size[2]),
                                  format_config |-> c],
                     stage |-> [name |-> "load", image |-> 1,
                                before |-> ImageOpened("1080x1350.png", size[1], size[2]),
                                result |-> 1]]
    /\ IdleValidate /\ IdleConfig /\ IdleMain /\ IdleFormat /\ IdleText /\ IdleFit

otherThanPipeline == <<validateVars, configVars, mainVars, formatVars, textVars, fitVars>>

\* What a stage called on the object image leaves
After(name, image, out) ==
    /\ images' = out.images
    /\ pipe' = [pipe EXCEPT !.stage = [name |-> name, image |-> image,
                                       before |-> images[image], result |-> out.r]]
    /\ UNCHANGED otherThanPipeline

\* The objects holding the template or something made from it
Cards == {i \in DOMAIN images : images[i].name = images[pipe.template_image].name}

Photos == DOMAIN images \ Cards

Preview ==
    /\ Len(images) < MaxImages
    /\ After("preview", pipe.template_image, Thumbnailed(copy(images, pipe.template_image)))

CompositeImages ==
    /\ Len(images) < MaxImages
    /\ \E photos \in UNION {[1..k -> Photos] : k \in 1..2} :
          After("composite_images", pipe.template_image,
                Composited(copy(images, pipe.template_image), photos,
                           Get(pipe.format_config, "slots", JList(<<>>)).v))

RenderTextOn ==
    /\ Len(images) < MaxImages
    /\ \E image \in Cards, texts \in PipelineTexts :
          After("render_text", image,
                TextDrawn(copy(images, image), render_text(pipe.format_config, texts)))

NextPipeline == Preview \/ CompositeImages \/ RenderTextOn

SpecPipeline == InitPipeline /\ [][NextPipeline]_vars

(***************************************************************************)
(* C11.  The pipeline never modifies the loaded template image or the      *)
(* format configuration: after any sequence of preview, composite_images   *)
(* and render_text calls both equal their values at load time, and the     *)
(* image a stage was called on is as it was before the call, the stage     *)
(* having written into another object.                                     *)
(***************************************************************************)
C11_PipelineWorksOnCopies ==
    /\ images[pipe.template_image] = pipe.at_load.template_image
    /\ pipe.format_config = pipe.at_load.format_config
    /\ pipe.stage.name # "load" =>
          /\ images[pipe.stage.image] = pipe.stage.before
          /\ pipe.stage.result # pipe.stage.image

\* render_text has drawn on a copy of a composite that carries photos, and a
\* preview has been shrunk
C11_Witness ==
    /\ pipe.stage.name = "render_text"
    /\ pipe.stage.image # pipe.template_image
    /\ \E i \in DOMAIN images[pipe.stage.image].marks :
          images[pipe.stage.image].marks[i].op = "paste"
    /\ Len(images[pipe.stage.result].marks) > Len(images[pipe.stage.image].marks)
    /\ \E i \in DOMAIN images : images[i].w = 400 /\ images[i].h = 500

=============================================================================
